---- MODULE Spec2Model ----
(***************************************************************************)
(* Checkpoint coordination and resumption protocol of train_ddp.py:        *)
(* CheckpointManager (save, load_latest, the SIGTERM handler) and the      *)
(* training loop of train(), run by one process per rank over one shared   *)
(* checkpoint directory.                                                   *)
(*                                                                         *)
(* A record file is named by the (epoch, step) pair embedded in            *)
(* checkpoint_epoch{epoch}_step{step}.pt; latest.pt is a symbolic link     *)
(* holding one such name.  The model and optimizer state is abstracted to  *)
(* the number of optimizer updates applied to it.                          *)
(***************************************************************************)
EXTENDS Integers, FiniteSets, Sequences, TLC

\* world_size, line 113: the ranks the orchestrator starts
WorldSize == 2

\* ---------------------------------------------------------------- bounds
Epochs == 2             \* args.epochs
BatchesPerEpoch == 3    \* len(dataloader)
CheckpointInterval == 2 \* args.checkpoint_interval
MaxRestarts == 1        \* restarts of a process by the orchestrator

Workers == 0 .. (WorldSize - 1)

VARIABLES
    pc,            \* position of each rank's process in train()/save()/load_latest()
    interrupted,   \* CheckpointManager.interrupted of each process
    start_epoch,   \* train(): start_epoch
    start_step,    \* train(): start_step
    epoch,         \* train(): epoch
    batch_idx,     \* train(): batch_idx
    global_step,   \* train(): global_step
    loss,          \* train(): TRUE when the local name loss is bound
    model,         \* updates applied to the in-memory model/optimizer state
    call,          \* arguments of the save() call in progress
    err,           \* exception that ended the process, "none" otherwise
    files,         \* checkpoint_dir: record name -> content
    latest,        \* latest.pt: {} when absent, {name} when it links to name
    restarts,      \* restarts performed so far
    published,     \* history: names latest.pt has ever linked to
    observed,      \* history: the driver saw interrupted = TRUE (line 165)
    resumed        \* history: the record load_latest returned (line 105), {} if none

vars == <<pc, interrupted, start_epoch, start_step, epoch, batch_idx, global_step,
          loss, model, call, err, files, latest, restarts, published, observed,
          resumed>>

store == <<files, latest>>

\* -------------------------------------------------------------- helpers
NoCall == [epoch |-> 0, step |-> 0, trigger |-> "none"]

\* path = checkpoint_dir / f"checkpoint_epoch{epoch}_step{step}.pt"
PathName(e, s) == <<e, s>>

\* the checkpoint dict built by save(), with the bytes of it on disk so far
Checkpoint(e, s, m, t) ==
    [epoch |-> e, step |-> s, model |-> m, trigger |-> t, full |-> TRUE]

Torn(e, s, t) ==
    [epoch |-> e, step |-> s, model |-> 0, trigger |-> t, full |-> FALSE]

WriteFile(f, n, r) == [x \in (DOMAIN f) \cup {n} |-> IF x = n THEN r ELSE f[x]]

\* Path.exists(): follows the link, TRUE when the link's target is a file
LatestExists == \E n \in latest : n \in DOMAIN files

Alive(w) == pc[w] \notin {"done", "exited", "failed", "killed"}

InSave(w) == pc[w] \in {"save", "save_open", "save_write", "save_exists",
                        "save_unlink", "save_symlink", "save_return"}

\* a slip in train(): the driver catches the exception, logs it and goes on with
\* the next batch
RaiseCaught(w, e) ==
    /\ pc' = [pc EXCEPT ![w] = "batch_head"]
    /\ err' = [err EXCEPT ![w] = e]

\* the process of rank w ends with an uncaught exception (exit status 1)
Raise(w, e) ==
    /\ pc' = [pc EXCEPT ![w] = "failed"]
    /\ err' = [err EXCEPT ![w] = e]

\* ------------------------------------------------------------------ Init
Init ==
    /\ pc = [w \in Workers |-> "start"]
    /\ interrupted = [w \in Workers |-> FALSE]
    /\ start_epoch = [w \in Workers |-> 0]
    /\ start_step = [w \in Workers |-> 0]
    /\ epoch = [w \in Workers |-> 0]
    /\ batch_idx = [w \in Workers |-> 0]
    /\ global_step = [w \in Workers |-> 0]
    /\ loss = [w \in Workers |-> FALSE]
    /\ model = [w \in Workers |-> 0]
    /\ call = [w \in Workers |-> NoCall]
    /\ err = [w \in Workers |-> "none"]
    /\ files = [n \in {} |-> Torn(0, 0, "none")]
    /\ latest = {}
    /\ restarts = 0
    /\ published = {}
    /\ observed = [w \in Workers |-> FALSE]
    /\ resumed = [w \in Workers |-> {}]

\* ------------------------------------------------- CheckpointManager
\* __init__: registers the SIGTERM handler; train() then calls load_latest
Construct(w) ==
    /\ pc[w] = "start"
    /\ pc' = [pc EXCEPT ![w] = "load_latest"]
    /\ UNCHANGED <<interrupted, start_epoch, start_step, epoch, batch_idx,
                   global_step, loss, model, call, err, files, latest, restarts,
                   published, observed, resumed>>

\* a slip at lines 69-71: the handler checkpoints by itself
HandleSigtermSaves(w) ==
    /\ Alive(w)
    /\ pc[w] # "start"
    /\ ~interrupted[w]
    /\ interrupted' = [interrupted EXCEPT ![w] = TRUE]
    /\ call' = [call EXCEPT ![w] = [epoch |-> epoch[w], step |-> global_step[w],
                                    trigger |-> "interruption"]]
    /\ pc' = [pc EXCEPT ![w] = "save"]
    /\ UNCHANGED <<start_epoch, start_step, epoch, batch_idx, global_step, loss,
                   model, err, files, latest, restarts, published, observed,
                   resumed>>

\* _handle_sigterm: runs between any two steps of the process once registered
HandleSigterm(w) ==
    /\ Alive(w)
    /\ pc[w] # "start"
    /\ ~interrupted[w]
    /\ interrupted' = [interrupted EXCEPT ![w] = TRUE]
    /\ UNCHANGED <<pc, start_epoch, start_step, epoch, batch_idx, global_step,
                   loss, model, call, err, files, latest, restarts, published,
                   observed, resumed>>

\* load_latest, lines 96-98: if not latest.exists(): return 0, 0
LoadLatestCheck(w) ==
    /\ pc[w] = "load_latest"
    /\ IF LatestExists
       THEN /\ pc' = [pc EXCEPT ![w] = "torch_load"]
            /\ UNCHANGED <<start_epoch, start_step, epoch, global_step>>
       ELSE /\ pc' = [pc EXCEPT ![w] = "epoch_head"]
            /\ start_epoch' = [start_epoch EXCEPT ![w] = 0]
            /\ start_step' = [start_step EXCEPT ![w] = 0]
            /\ epoch' = [epoch EXCEPT ![w] = 0]
            /\ global_step' = [global_step EXCEPT ![w] = 0]
    /\ UNCHANGED <<interrupted, batch_idx, loss, model, call, err, files, latest,
                   restarts, published, observed, resumed>>

\* a slip at line 158: global_step is not set from the restored step
LoadLatestReadStepLost(w) ==
    /\ pc[w] = "torch_load"
    /\ \E n \in latest :
         /\ n \in DOMAIN files
         /\ files[n].full
         /\ pc' = [pc EXCEPT ![w] = "epoch_head"]
         /\ model' = [model EXCEPT ![w] = files[n].model]
         /\ start_epoch' = [start_epoch EXCEPT ![w] = files[n].epoch]
         /\ start_step' = [start_step EXCEPT ![w] = files[n].step]
         /\ epoch' = [epoch EXCEPT ![w] = files[n].epoch]
         /\ global_step' = [global_step EXCEPT ![w] = 0]
         /\ resumed' = [resumed EXCEPT ![w] = {n}]
    /\ UNCHANGED <<interrupted, batch_idx, loss, call, err, files, latest,
                   restarts, published, observed>>

\* load_latest, lines 100-105: torch.load(latest), restore, return epoch, step
LoadLatestRead(w) ==
    /\ pc[w] = "torch_load"
    /\ \E n \in latest :
         /\ n \in DOMAIN files
         /\ files[n].full
         /\ pc' = [pc EXCEPT ![w] = "epoch_head"]
         /\ model' = [model EXCEPT ![w] = files[n].model]
         /\ start_epoch' = [start_epoch EXCEPT ![w] = files[n].epoch]
         /\ start_step' = [start_step EXCEPT ![w] = files[n].step]
         /\ epoch' = [epoch EXCEPT ![w] = files[n].epoch]
         /\ global_step' = [global_step EXCEPT ![w] = files[n].step]
         /\ resumed' = [resumed EXCEPT ![w] = {n}]
    /\ UNCHANGED <<interrupted, batch_idx, loss, call, err, files, latest,
                   restarts, published, observed>>

\* load_latest, line 100: torch.load raises, the link being gone by now (unlinked
\* since line 97) or the record it names being torn
LoadLatestFail(w) ==
    /\ pc[w] = "torch_load"
    /\ \A n \in latest : n \in DOMAIN files => ~files[n].full
    /\ Raise(w, IF LatestExists THEN "UnpicklingError" ELSE "FileNotFoundError")
    /\ UNCHANGED <<interrupted, start_epoch, start_step, epoch, batch_idx,
                   global_step, loss, model, call, files, latest, restarts,
                   published, observed, resumed>>

\* a slip at line 74: the rank test is missing
AnyRankWrites(rank) == TRUE

\* save, lines 74-75: if self.rank != 0: return
IsDesignatedWriter(rank) == rank = 0

SaveRankCheck(w) ==
    /\ pc[w] = "save"
    /\ pc' = [pc EXCEPT ![w] = IF IsDesignatedWriter(w) THEN "save_open"
                                                       ELSE "save_return"]
    /\ UNCHANGED <<interrupted, start_epoch, start_step, epoch, batch_idx,
                   global_step, loss, model, call, err, files, latest, restarts,
                   published, observed, resumed>>

\* save, line 86: torch.save opens path for writing, which creates or truncates it
TorchSaveOpen(w) ==
    /\ pc[w] = "save_open"
    /\ files' = WriteFile(files, PathName(call[w].epoch, call[w].step),
                          Torn(call[w].epoch, call[w].step, call[w].trigger))
    /\ pc' = [pc EXCEPT ![w] = "save_write"]
    /\ UNCHANGED <<interrupted, start_epoch, start_step, epoch, batch_idx,
                   global_step, loss, model, call, err, latest, restarts,
                   published, observed, resumed>>

\* save, lines 77-86: torch.save writes the whole checkpoint and closes the file
TorchSaveWrite(w) ==
    /\ pc[w] = "save_write"
    /\ files' = WriteFile(files, PathName(call[w].epoch, call[w].step),
                          Checkpoint(call[w].epoch, call[w].step, model[w],
                                     call[w].trigger))
    /\ pc' = [pc EXCEPT ![w] = "save_exists"]
    /\ UNCHANGED <<interrupted, start_epoch, start_step, epoch, batch_idx,
                   global_step, loss, model, call, err, latest, restarts,
                   published, observed, resumed>>

\* save, line 86: torch.save raises (disk full, permission denied, pickling error),
\* before the file is opened or after part of it is written
TorchSaveFail(w) ==
    /\ pc[w] \in {"save_open", "save_write"}
    /\ Raise(w, "SerializationError")
    /\ UNCHANGED <<interrupted, start_epoch, start_step, epoch, batch_idx,
                   global_step, loss, model, call, files, latest, restarts,
                   published, observed, resumed>>

\* save, line 91: if latest.exists()
SaveExists(w) ==
    /\ pc[w] = "save_exists"
    /\ pc' = [pc EXCEPT ![w] = IF LatestExists THEN "save_unlink" ELSE "save_symlink"]
    /\ UNCHANGED <<interrupted, start_epoch, start_step, epoch, batch_idx,
                   global_step, loss, model, call, err, files, latest, restarts,
                   published, observed, resumed>>

\* save, line 92: latest.unlink()
SaveUnlink(w) ==
    /\ pc[w] = "save_unlink"
    /\ latest # {}
    /\ latest' = {}
    /\ pc' = [pc EXCEPT ![w] = "save_symlink"]
    /\ UNCHANGED <<interrupted, start_epoch, start_step, epoch, batch_idx,
                   global_step, loss, model, call, err, files, restarts,
                   published, observed, resumed>>

\* save, line 93: latest.symlink_to(path.name)
SaveSymlink(w) ==
    /\ pc[w] = "save_symlink"
    /\ latest = {}
    /\ latest' = {PathName(call[w].epoch, call[w].step)}
    /\ published' = published \cup {PathName(call[w].epoch, call[w].step)}
    /\ pc' = [pc EXCEPT ![w] = "save_return"]
    /\ UNCHANGED <<interrupted, start_epoch, start_step, epoch, batch_idx,
                   global_step, loss, model, call, err, files, restarts,
                   observed, resumed>>

\* save, lines 92-93: unlink or symlink_to raises OSError (storage failure, a link
\* that is already gone, a link that is already there)
SaveLinkFail(w) ==
    /\ pc[w] \in {"save_unlink", "save_symlink"}
    /\ Raise(w, "OSError")
    /\ UNCHANGED <<interrupted, start_epoch, start_step, epoch, batch_idx,
                   global_step, loss, model, call, files, latest, restarts,
                   published, observed, resumed>>

\* ------------------------------------------------------------- train()
\* a slip at line 159: the range includes args.epochs
EpochHeadInclusive(w) ==
    /\ pc[w] = "epoch_head"
    /\ IF epoch[w] <= Epochs
       THEN /\ pc' = [pc EXCEPT ![w] = "batch_head"]
            /\ batch_idx' = [batch_idx EXCEPT ![w] = 0]
       ELSE /\ pc' = [pc EXCEPT ![w] = "done"]
            /\ UNCHANGED batch_idx
    /\ UNCHANGED <<interrupted, start_epoch, start_step, epoch, global_step,
                   loss, model, call, err, files, latest, restarts, published,
                   observed, resumed>>

\* line 159: for epoch in range(start_epoch, args.epochs); lines 197-198 after it
EpochHead(w) ==
    /\ pc[w] = "epoch_head"
    /\ IF epoch[w] < Epochs
       THEN /\ pc' = [pc EXCEPT ![w] = "batch_head"]
            /\ batch_idx' = [batch_idx EXCEPT ![w] = 0]
       ELSE /\ pc' = [pc EXCEPT ![w] = "done"]
            /\ UNCHANGED batch_idx
    /\ UNCHANGED <<interrupted, start_epoch, start_step, epoch, global_step,
                   loss, model, call, err, files, latest, restarts, published,
                   observed, resumed>>

\* a slip at line 165: the driver clears the flag when it reads it
CheckInterruptionResets(w) ==
    /\ pc[w] = "batch_head"
    /\ batch_idx[w] < BatchesPerEpoch
    /\ interrupted[w]
    /\ interrupted' = [interrupted EXCEPT ![w] = FALSE]
    /\ observed' = [observed EXCEPT ![w] = TRUE]
    /\ IF loss[w]
       THEN /\ call' = [call EXCEPT ![w] = [epoch |-> epoch[w],
                                            step |-> global_step[w],
                                            trigger |-> "interruption"]]
            /\ pc' = [pc EXCEPT ![w] = "save"]
            /\ UNCHANGED err
       ELSE /\ Raise(w, "UnboundLocalError")
            /\ UNCHANGED call
    /\ UNCHANGED <<start_epoch, start_step, epoch, batch_idx, global_step, loss,
                   model, files, latest, restarts, published, resumed>>

\* lines 165-169: the flag is set; loss.item() is evaluated before save is called
CheckInterruption(w) ==
    /\ pc[w] = "batch_head"
    /\ batch_idx[w] < BatchesPerEpoch
    /\ interrupted[w]
    /\ observed' = [observed EXCEPT ![w] = TRUE]
    /\ IF loss[w]
       THEN /\ call' = [call EXCEPT ![w] = [epoch |-> epoch[w],
                                            step |-> global_step[w],
                                            trigger |-> "interruption"]]
            /\ pc' = [pc EXCEPT ![w] = "save"]
            /\ UNCHANGED err
       ELSE /\ Raise(w, "UnboundLocalError")
            /\ UNCHANGED call
    /\ UNCHANGED <<interrupted, start_epoch, start_step, epoch, batch_idx,
                   global_step, loss, model, files, latest, restarts, published,
                   resumed>>

\* lines 163-165: the next batch is fetched and the flag is clear
NextBatch(w) ==
    /\ pc[w] = "batch_head"
    /\ batch_idx[w] < BatchesPerEpoch
    /\ ~interrupted[w]
    /\ pc' = [pc EXCEPT ![w] = "compute"]
    /\ UNCHANGED <<interrupted, start_epoch, start_step, epoch, batch_idx,
                   global_step, loss, model, call, err, files, latest, restarts,
                   published, observed, resumed>>

\* a slip at line 188: the interval test is missing, every step is checkpointed
PeriodicAlways(step) == TRUE

\* a slip at line 188: the interval is taken in the wrong unit
PeriodicDoubled(step) == step % (2 * CheckpointInterval) = 0

\* line 188: if global_step % args.checkpoint_interval == 0
PeriodicDue(step) == step % CheckpointInterval = 0

\* lines 171-189: forward, backward, optimizer.step(), global_step += 1, and the
\* periodic checkpoint when it is due
TrainStep(w) ==
    /\ pc[w] = "compute"
    /\ model' = [model EXCEPT ![w] = @ + 1]
    /\ loss' = [loss EXCEPT ![w] = TRUE]
    /\ global_step' = [global_step EXCEPT ![w] = @ + 1]
    /\ IF PeriodicDue(global_step[w] + 1)
       THEN /\ call' = [call EXCEPT ![w] = [epoch |-> epoch[w],
                                            step |-> global_step[w] + 1,
                                            trigger |-> "periodic"]]
            /\ pc' = [pc EXCEPT ![w] = "save"]
            /\ UNCHANGED batch_idx
       ELSE /\ pc' = [pc EXCEPT ![w] = "batch_head"]
            /\ batch_idx' = [batch_idx EXCEPT ![w] = @ + 1]
            /\ UNCHANGED call
    /\ UNCHANGED <<interrupted, start_epoch, start_step, epoch, err, files,
                   latest, restarts, published, observed, resumed>>

\* a slip at line 192: the epoch just finished is stored as it is
EpochEndEpochSame(e) == e

\* line 192: the epoch to store in the end-of-epoch checkpoint
EpochEndEpoch(e) == e + 1

\* lines 191-192: the dataloader is exhausted (it holds at least one batch, so loss
\* is bound)
EpochEnd(w) ==
    /\ pc[w] = "batch_head"
    /\ batch_idx[w] = BatchesPerEpoch
    /\ call' = [call EXCEPT ![w] = [epoch |-> EpochEndEpoch(epoch[w]),
                                    step |-> global_step[w],
                                    trigger |-> "epoch_end"]]
    /\ pc' = [pc EXCEPT ![w] = "save"]
    /\ UNCHANGED <<interrupted, start_epoch, start_step, epoch, batch_idx,
                   global_step, loss, model, err, files, latest, restarts,
                   published, observed, resumed>>

\* save returns to its call site: line 189 (next batch), lines 168-169
\* (cleanup_distributed, sys.exit(0)), line 192 (next epoch)
SaveReturn(w) ==
    /\ pc[w] = "save_return"
    /\ \/ /\ call[w].trigger = "periodic"
          /\ pc' = [pc EXCEPT ![w] = "batch_head"]
          /\ batch_idx' = [batch_idx EXCEPT ![w] = @ + 1]
          /\ UNCHANGED epoch
       \/ /\ call[w].trigger = "interruption"
          /\ pc' = [pc EXCEPT ![w] = "exited"]
          /\ UNCHANGED <<batch_idx, epoch>>
       \/ /\ call[w].trigger = "epoch_end"
          /\ pc' = [pc EXCEPT ![w] = "epoch_head"]
          /\ epoch' = [epoch EXCEPT ![w] = @ + 1]
          /\ UNCHANGED batch_idx
    /\ UNCHANGED <<interrupted, start_epoch, start_step, global_step, loss,
                   model, call, err, files, latest, restarts, published,
                   observed, resumed>>

\* ------------------------------------------------------- the orchestrator
\* the memory of a process that is not running: every local of train() and every
\* field of its CheckpointManager is as at the start of main()
NoMemory(w) ==
    /\ interrupted' = [interrupted EXCEPT ![w] = FALSE]
    /\ start_epoch' = [start_epoch EXCEPT ![w] = 0]
    /\ start_step' = [start_step EXCEPT ![w] = 0]
    /\ epoch' = [epoch EXCEPT ![w] = 0]
    /\ batch_idx' = [batch_idx EXCEPT ![w] = 0]
    /\ global_step' = [global_step EXCEPT ![w] = 0]
    /\ loss' = [loss EXCEPT ![w] = FALSE]
    /\ model' = [model EXCEPT ![w] = 0]
    /\ call' = [call EXCEPT ![w] = NoCall]
    /\ err' = [err EXCEPT ![w] = "none"]
    /\ observed' = [observed EXCEPT ![w] = FALSE]
    /\ resumed' = [resumed EXCEPT ![w] = {}]

\* the process is killed outright (SIGKILL after the grace period, node loss)
Kill(w) ==
    /\ Alive(w)
    /\ pc' = [pc EXCEPT ![w] = "killed"]
    /\ NoMemory(w)
    /\ UNCHANGED <<files, latest, restarts, published>>

\* a terminated process is started again: main() runs from the top
Restart(w) ==
    /\ ~Alive(w)
    /\ restarts < MaxRestarts
    /\ restarts' = restarts + 1
    /\ pc' = [pc EXCEPT ![w] = "start"]
    /\ NoMemory(w)
    /\ UNCHANGED <<files, latest, published>>

WorkerNext(w) ==
    \/ Construct(w)
    \/ HandleSigterm(w)
    \/ LoadLatestCheck(w)
    \/ LoadLatestRead(w)
    \/ LoadLatestFail(w)
    \/ SaveRankCheck(w)
    \/ TorchSaveOpen(w)
    \/ TorchSaveWrite(w)
    \/ TorchSaveFail(w)
    \/ SaveExists(w)
    \/ SaveUnlink(w)
    \/ SaveSymlink(w)
    \/ SaveLinkFail(w)
    \/ EpochHead(w)
    \/ CheckInterruption(w)
    \/ NextBatch(w)
    \/ TrainStep(w)
    \/ EpochEnd(w)
    \/ SaveReturn(w)
    \/ Kill(w)

\* One incarnation of the job: every rank runs main() once, concurrently.  The ranks
\* step on their own here, which allows every behaviour of the job and more:
\* JobSpec below has the collectives that keep them in step.
Next == \E w \in Workers : WorkerNext(w)

Spec == Init /\ [][Next]_vars

\* The designated writer over the job's lifetime: its process, and the restarts of
\* it.  The other ranks leave the checkpoint directory alone (ReplicaLeavesStore),
\* so the directory evolves by the steps of rank 0 only.
WriterNext == WorkerNext(0) \/ Restart(0)

WriterSpec == Init /\ [][WriterNext]_vars

\* ---------------------------------------------- the job with its collectives
\* lines 110 and 132: init_process_group and the DDP constructor are collectives of
\* all ranks, so no rank reaches line 152 before every rank has been started
SyncConstruct ==
    /\ \A w \in Workers : pc[w] = "start"
    /\ pc' = [w \in Workers |-> "load_latest"]
    /\ UNCHANGED <<interrupted, start_epoch, start_step, epoch, batch_idx,
                   global_step, loss, model, call, err, files, latest, restarts,
                   published, observed, resumed>>

\* the model is not wrapped in DDP: every rank steps on its own
UnsyncTrainStep == \E w \in Workers : TrainStep(w)

\* lines 171-189 under DDP: loss.backward() all-reduces the gradients, so the step
\* of one rank completes only together with the same step of every other rank
SyncTrainStep ==
    /\ \A w \in Workers : pc[w] = "compute"
    /\ model' = [w \in Workers |-> model[w] + 1]
    /\ loss' = [w \in Workers |-> TRUE]
    /\ global_step' = [w \in Workers |-> global_step[w] + 1]
    /\ call' = [w \in Workers |->
                  IF PeriodicDue(global_step[w] + 1)
                  THEN [epoch |-> epoch[w], step |-> global_step[w] + 1,
                        trigger |-> "periodic"]
                  ELSE call[w]]
    /\ pc' = [w \in Workers |->
                IF PeriodicDue(global_step[w] + 1) THEN "save" ELSE "batch_head"]
    /\ batch_idx' = [w \in Workers |->
                       IF PeriodicDue(global_step[w] + 1) THEN batch_idx[w]
                                                         ELSE batch_idx[w] + 1]
    /\ UNCHANGED <<interrupted, start_epoch, start_step, epoch, err, files,
                   latest, restarts, published, observed, resumed>>

\* the orchestrator starts the whole job again once every process of it has ended
RestartJob ==
    /\ \A w \in Workers : ~Alive(w)
    /\ restarts < MaxRestarts
    /\ restarts' = restarts + 1
    /\ pc' = [w \in Workers |-> "start"]
    /\ interrupted' = [w \in Workers |-> FALSE]
    /\ start_epoch' = [w \in Workers |-> 0]
    /\ start_step' = [w \in Workers |-> 0]
    /\ epoch' = [w \in Workers |-> 0]
    /\ batch_idx' = [w \in Workers |-> 0]
    /\ global_step' = [w \in Workers |-> 0]
    /\ loss' = [w \in Workers |-> FALSE]
    /\ model' = [w \in Workers |-> 0]
    /\ call' = [w \in Workers |-> NoCall]
    /\ err' = [w \in Workers |-> "none"]
    /\ observed' = [w \in Workers |-> FALSE]
    /\ resumed' = [w \in Workers |-> {}]
    /\ UNCHANGED <<files, latest, published>>

\* the steps a rank takes on its own
LocalNext(w) ==
    \/ HandleSigterm(w)
    \/ LoadLatestCheck(w)
    \/ LoadLatestRead(w)
    \/ LoadLatestFail(w)
    \/ SaveRankCheck(w)
    \/ TorchSaveOpen(w)
    \/ TorchSaveWrite(w)
    \/ TorchSaveFail(w)
    \/ SaveExists(w)
    \/ SaveUnlink(w)
    \/ SaveSymlink(w)
    \/ SaveLinkFail(w)
    \/ EpochHead(w)
    \/ CheckInterruption(w)
    \/ NextBatch(w)
    \/ EpochEnd(w)
    \/ SaveReturn(w)
    \/ Kill(w)

\* The job over its lifetime: all ranks, their collectives, and restarts of the job.
JobNext ==
    \/ SyncConstruct
    \/ SyncTrainStep
    \/ RestartJob
    \/ \E w \in Workers : LocalNext(w)

JobSpec == Init /\ [][JobNext]_vars

\* ------------------------------------------------ a run that is left to finish
\* the steps of the code of rank w when every torch.save, unlink, symlink_to and
\* training step completes
Driver(w) ==
    \/ Construct(w)
    \/ LoadLatestCheck(w)
    \/ LoadLatestRead(w)
    \/ LoadLatestFail(w)
    \/ SaveRankCheck(w)
    \/ TorchSaveOpen(w)
    \/ TorchSaveWrite(w)
    \/ SaveExists(w)
    \/ SaveUnlink(w)
    \/ SaveSymlink(w)
    \/ EpochHead(w)
    \/ CheckInterruption(w)
    \/ NextBatch(w)
    \/ TrainStep(w)
    \/ EpochEnd(w)
    \/ SaveReturn(w)

LiveNext == \E w \in Workers : Driver(w) \/ HandleSigterm(w)

\* One incarnation of the job that nothing kills: the interpreter goes on running
\* each process while it has a statement to run; a SIGTERM may come or not.
LiveSpec == Init /\ [][LiveNext]_vars /\ \A w \in Workers : WF_vars(Driver(w))

\* ------------------------------------------------------------ properties
\* lexicographic order on (epoch, step)
Leq(a, b) == a[1] < b[1] \/ (a[1] = b[1] /\ a[2] <= b[2])

\* the exceptions save() raises on an I/O failure
IOErrors == {"SerializationError", "OSError"}

\* C1: after every save of rank 0, over kills and restarts, latest.pt links to a
\* record whose (epoch, step) is >= that of every record published before.
LatestNeverRegresses ==
    \A n \in latest : \A p \in published : Leq(p, n)

\* C2: in every state, also inside save and where rank 0 was killed, latest.pt
\* resolves to a fully written record once a record has been published.
LatestAlwaysResolves ==
    published # {} => \E n \in latest : n \in DOMAIN files /\ files[n].full

\* C3: a process of rank 0 that saw the flag with k+1 >= 1 batches completed ends by
\* writing the interruption record with step = k+1, no batch in between, and exits
\* with status 0 (an I/O failure of that save aside).
InterruptionSavesCompletedBatches ==
    (/\ observed[0]
     /\ ~Alive(0)
     /\ model[0] >= 1
     /\ err[0] \notin IOErrors)
    => /\ pc[0] = "exited"
       /\ call[0].trigger = "interruption"
       /\ call[0].step = model[0]

\* C4: a driver that sees the flag at the start of a batch iteration, the first of
\* the process included, calls save and exits with status 0; only an I/O failure
\* of that save ends it otherwise.
FlagObservedSavesAndExits ==
    \A w \in Workers :
        observed[w] =>
            /\ call[w].trigger = "interruption"
            /\ call[w].epoch = epoch[w]
            /\ call[w].step = global_step[w]
            /\ \/ InSave(w)
               \/ pc[w] = "exited"
               \/ pc[w] = "failed" /\ err[w] \in IOErrors

\* C5: with BatchesPerEpoch batches per epoch, the record published at the end of
\* epoch e has step = (e+1) * BatchesPerEpoch, whatever the run resumed from.
EpochEndStepCountsEachBatchOnce ==
    \A n \in latest :
        (files[n].full /\ files[n].trigger = "epoch_end")
            => files[n].step = files[n].epoch * BatchesPerEpoch

\* C6: finishing epoch e with step s publishes the record (e+1, s), and a process
\* that resumes from a record (E, S) starts its epoch loop at epoch E with step S
\* and never runs an epoch below E.
EpochEndStoresNextEpoch ==
    /\ (pc[0] = "save_return" /\ call[0].trigger = "epoch_end")
        => /\ batch_idx[0] = BatchesPerEpoch
           /\ latest = {PathName(epoch[0] + 1, global_step[0])}
           /\ \A n \in latest : /\ files[n].full
                                /\ files[n].epoch = epoch[0] + 1
                                /\ files[n].step = global_step[0]
    /\ \A w \in Workers : \A n \in resumed[w] :
           /\ start_epoch[w] = n[1]
           /\ start_step[w] = n[2]
           /\ epoch[w] >= n[1]
           /\ global_step[w] >= n[2]
           /\ global_step[w] = n[2] => epoch[w] = n[1]

\* C6 witness: a process resumed from an end-of-epoch record (1, s) is in the batch
\* loop of epoch 1 with no batch of its own run yet.
EpochEndResumed ==
    \E w \in Workers : \E n \in resumed[w] :
        /\ n \in DOMAIN files
        /\ files[n].trigger = "epoch_end"
        /\ files[n].full
        /\ n[1] = 1
        /\ pc[w] = "compute"
        /\ epoch[w] = 1
        /\ global_step[w] = n[2]

\* C7: rank 0 loads a record (E, S), sees the flag before it runs any batch, and
\* publishes a record with the same (E, S) (an I/O failure of that save aside).
ResumeThenSaveKeepsCounters ==
    (/\ resumed[0] # {}
     /\ observed[0]
     /\ global_step[0] = start_step[0]
     /\ ~Alive(0)
     /\ err[0] \notin IOErrors)
    => /\ pc[0] = "exited"
       /\ latest = resumed[0]
       /\ call[0].epoch = start_epoch[0]
       /\ call[0].step = start_step[0]

\* C8: no step of a rank other than 0 changes the record files or latest.pt, and
\* its save returns at once instead of failing.
ReplicaLeavesStore ==
    [][\A w \in Workers \ {0} :
          /\ pc'[w] # pc[w] => UNCHANGED store
          /\ (pc[w] = "save" /\ pc'[w] # pc[w]) => pc'[w] \in {"save_return", "killed"}
      ]_vars

\* C8 witness: a replica has called save for a periodic checkpoint and returned
\* from it, rank 0 not having written its own yet: the directory is still empty.
ReplicaSaveReturnedStoreEmpty ==
    \E w \in Workers \ {0} :
        /\ pc[w] = "save_return"
        /\ call[w].trigger = "periodic"
        /\ global_step[w] = CheckpointInterval
        /\ global_step[0] = CheckpointInterval
        /\ DOMAIN files = {}
        /\ latest = {}

\* C9: when torch.save fails, latest.pt is as before the call and resolves to a
\* fully written record, also when the record has the name latest.pt links to.
FailedSerializationKeepsLatest ==
    [][(pc[0] \in {"save_open", "save_write"} /\ pc'[0] = "failed")
          => /\ latest' = latest
             /\ \A n \in latest' : n \in DOMAIN files' /\ files'[n].full
      ]_vars

\* C10: load_latest returns (0, 0) only when no record was ever published.
FreshStartOnlyWhenNothingPublished ==
    [][\A w \in Workers :
          (pc[w] = "load_latest" /\ pc'[w] = "epoch_head") => published = {}
      ]_vars

\* C11: no save of rank 0 targets a record path that is already in the directory:
\* every record file is written once and never overwritten.
RecordNamesNeverCollide ==
    [][(pc[0] = "save_open" /\ pc'[0] = "save_write")
          => PathName(call[0].epoch, call[0].step) \notin DOMAIN files
      ]_vars

\* C12: a fresh, uninterrupted first epoch of rank 0: its periodic saves publish
\* exactly the steps I, 2I, ... reached so far, one after the other, each becoming
\* latest.pt, and the end of the epoch adds exactly the record (1, BatchesPerEpoch);
\* no other record file exists.
PeriodicNames(upto) ==
    {PathName(0, k * CheckpointInterval) : k \in 1 .. (upto \div CheckpointInterval)}

LoadErrors == {"FileNotFoundError", "UnpicklingError"}

LoadFinished(w) == pc[w] \notin {"start", "load_latest", "torch_load", "killed"}

LoadFailed(w) == pc[w] = "failed" /\ err[w] \in LoadErrors

RecordsArePostStep ==
    /\ \A n \in DOMAIN files :
          files[n].full => /\ files[n].epoch = n[1]
                           /\ files[n].step = n[2]
                           /\ files[n].model = files[n].step
    /\ InSave(0) =>
          /\ call[0].step = global_step[0]
          /\ model[0] = global_step[0]
          /\ global_step[0] - start_step[0]
                = (epoch[0] - start_epoch[0]) * BatchesPerEpoch + batch_idx[0]
                    + (IF call[0].trigger = "periodic" THEN 1 ELSE 0)

\* C14 witness: a process that resumed from a record has run further batches and
\* published a record of its own
ResumedProcessPublished ==
    /\ resumed[0] # {}
    /\ pc[0] = "save_return"
    /\ call[0].step > start_step[0]
    /\ latest = {PathName(call[0].epoch, call[0].step)}
    /\ \A n \in latest : n \in DOMAIN files /\ files[n].full

\* C15: a step that sets the flag of a process changes nothing else (no record
\* file, not latest.pt, no counter, no position in the code), wherever the process
\* is, and no step of a running process clears a flag that is set.
SignalSetsOnlyFlag ==
    [][\A w \in Workers :
          /\ (~interrupted[w] /\ interrupted'[w])
                => UNCHANGED <<pc, start_epoch, start_step, epoch, batch_idx,
                               global_step, loss, model, call, err, files, latest,
                               restarts, published, observed, resumed>>
          /\ (interrupted[w] /\ pc'[w] \notin {"killed", "start"}) => interrupted'[w]
      ]_vars

\* C15 witness: the signal has arrived by the time rank 0 is writing a periodic
\* checkpoint, and the save goes on
SignalledInsideSave ==
    /\ interrupted[0]
    /\ ~observed[0]
    /\ pc[0] = "save_write"
    /\ call[0].trigger = "periodic"
    /\ latest # {}

\* C16: a process starts a save only from its training loop, never while a save of
\* it is in progress, and when rank 0 starts a save after an earlier one of the same
\* process, latest.pt links to the fully written record of that earlier save.
SaveStarts(w) == pc'[w] = "save" /\ (pc[w] # "save" \/ call'[w] # call[w])

SavesAreSequential ==
    [][\A w \in Workers :
          SaveStarts(w) =>
              /\ ~InSave(w)
              /\ (w = 0 /\ call[w].trigger # "none") =>
                    /\ latest = {PathName(call[w].epoch, call[w].step)}
                    /\ \A n \in latest : n \in DOMAIN files /\ files[n].full
      ]_vars

\* C16 witness: the signal came while the periodic save of rank 0 was under way or
\* just after; the interruption save that follows it has started with latest.pt
\* linking to the record of the periodic save
SecondSaveAfterFirst ==
    /\ pc[0] = "save_open"
    /\ call[0].trigger = "interruption"
    /\ observed[0]
    /\ latest = {PathName(epoch[0], global_step[0])}
    /\ PeriodicDue(global_step[0])

\* C17: an exception raised by save or load_latest ends the process with a failure
\* status at once: the step that raises it leaves the process failed, and a failed
\* process takes no further step (no batch, no save, no write to the directory)
\* until the orchestrator starts it again.
FailureEndsProcess ==
    [][\A w \in Workers :
          /\ (err[w] = "none" /\ err'[w] # "none") => pc'[w] = "failed"
          /\ pc'[w] \in {"done", "exited"} => err'[w] = "none"
          /\ pc[w] = "failed" =>
                /\ pc'[w] \in {"failed", "start"}
                /\ pc'[w] = "failed" =>
                      /\ model'[w] = model[w]
                      /\ global_step'[w] = global_step[w]
                      /\ call'[w] = call[w]
                      /\ err'[w] = err[w]
                      /\ w = 0 => UNCHANGED store
      ]_vars

\* C17 witness: a restarted process of rank 0 failed in load_latest, on a record
\* torn by the process before it, having run no batch and called no save
LoadFailureEnded ==
    /\ restarts > 0
    /\ pc[0] = "failed"
    /\ err[0] = "UnpicklingError"
    /\ global_step[0] = 0
    /\ call[0] = NoCall

\* C18: whenever rank 0 is at the top of a batch iteration or at the end of the
\* batch loop, its global_step is ahead of the step of the record latest.pt
\* resolves to (0 when it resolves to none) by less than CheckpointInterval, and
\* never behind it.
LatestStep == IF LatestExists THEN files[CHOOSE n \in latest : TRUE].step ELSE 0

UnsavedProgressBounded ==
    pc[0] = "batch_head" =>
        /\ \A n \in latest : n \in DOMAIN files => files[n].full
        /\ global_step[0] - LatestStep >= 0
        /\ global_step[0] - LatestStep < CheckpointInterval

\* C18 witness: a process that resumed from a record is as far ahead of latest.pt
\* as it can get, one step short of the next periodic checkpoint
ResumedOneShortOfPeriodic ==
    /\ resumed[0] # {}
    /\ pc[0] = "batch_head"
    /\ LatestExists
    /\ global_step[0] > start_step[0]
    /\ global_step[0] - LatestStep = CheckpointInterval - 1
    /\ CheckpointInterval > 1

\* C19: a process that is left to run ends by finishing every epoch or, having seen
\* the flag, by its interruption save and exit (a load_latest that raised aside).
EveryProcessTerminatesCleanly ==
    \A w \in Workers : <>(pc[w] \in {"done", "exited"} \/ LoadFailed(w))

\* C20: a process of rank 0 that loaded a record whose epoch is Epochs calls no
\* save, runs no batch and changes neither the record files nor latest.pt: its
\* only step of its own is the one to normal termination.
FinalRecordRestartIsNoOp ==
    [][(\E n \in resumed[0] : n[1] = Epochs) =>
          /\ UNCHANGED store
          /\ latest = resumed[0]
          /\ call[0] = NoCall
          /\ err[0] = "none"
          /\ model[0] = start_step[0]
          /\ global_step[0] = start_step[0]
          /\ pc[0] \in {"epoch_head", "done"}
          /\ pc'[0] # pc[0] => pc'[0] \in {"done", "killed", "start"}
      ]_vars

\* C20 witness: the job had finished, was started again, and the new process of
\* rank 0 has loaded the final record and terminated
FinishedJobRestarted ==
    /\ restarts > 0
    /\ pc[0] = "done"
    /\ \E n \in resumed[0] : n[1] = Epochs /\ files[n].trigger = "epoch_end"
    /\ latest = resumed[0]
====
